---------------------------- MODULE Spec2Model ----------------------------
(***************************************************************************)
(* State-machine model of SudokuGoku.py (class SudokuSolver).              *)
(*                                                                         *)
(* The solver keeps its grid in a pandas DataFrame.  A DataFrame is        *)
(* modelled as a function df[i][c] (i the index label, c the column        *)
(* label), so that df[i][c] is the entry the caller supplied at line i,    *)
(* position c.  The Python expression  df[a][b]  selects column a first    *)
(* and index b second; it is modelled by At(df, a, b) = df[b][a].          *)
(***************************************************************************)
EXTENDS Integers, Sequences, FiniteSets

VARIABLES
    pc,        \* where the program is: new / ready / fill / loop / ret / searched / done / invalid
    sudoku,    \* self._sudoku
    original,  \* self._original
    method,    \* argument of the running solve_sudoku call
    options,   \* table built by __get_options for the running call
    stack,     \* frames of the active __fill_sudoku_v1 / _v2 calls
    retval,    \* value returned by the last finished __fill_sudoku_* call
    returned,  \* what solve_sudoku handed back to its caller
    err,       \* last exception raised to the caller
    out,       \* last thing written to the terminal
    pre        \* history: the grid at the moment solve_sudoku was called

vars == <<pc, sudoku, original, method, options, stack, retval, returned, err, out, pre>>

\* range(0, 9): the labels of the index and of the columns of every DataFrame
R == 0 .. 8

\* range(1, 10): the values the exhaustive search tries, in this order
range_1_10 == <<1, 2, 3, 4, 5, 6, 7, 8, 9>>

SquaresRows ==
    << <<1, 1, 1, 2, 2, 2, 3, 3, 3>>,
       <<1, 1, 1, 2, 2, 2, 3, 3, 3>>,
       <<1, 1, 1, 2, 2, 2, 3, 3, 3>>,
       <<4, 4, 4, 5, 5, 5, 6, 6, 6>>,
       <<4, 4, 4, 5, 5, 5, 6, 6, 6>>,
       <<4, 4, 4, 5, 5, 5, 6, 6, 6>>,
       <<7, 7, 7, 8, 8, 8, 9, 9, 9>>,
       <<7, 7, 7, 8, 8, 8, 9, 9, 9>>,
       <<7, 7, 7, 8, 8, 8, 9, 9, 9>> >>

\* SudokuSolver._squares[i][j] (a numpy array: first subscript is the line)
squares(i, j) == SquaresRows[i + 1][j + 1]

(***************************************************************************)
(* pandas / numpy access paths used by the source                          *)
(***************************************************************************)
\* df[a][b]: column a, then index label b
At(df, a, b) == df[b][a]

\* df[a]: the Series that is column a
Column(df, a) == [k \in R |-> df[k][a]]

\* df.T
Transpose(df) == [i \in R |-> [c \in R |-> df[c][i]]]

\* df[a][b] = v
SetAt(df, a, b, v) == [df EXCEPT ![b][a] = v]

\* np.where(self._squares == id, df, 0): elementwise on the values arrays
where_squares(df, id) ==
    [p \in R \X R |-> IF squares(p[1], p[2]) = id THEN df[p[1]][p[2]] ELSE 0]

(***************************************************************************)
(* __is_correct, __check_sudoku, __is_complete, __next_empty               *)
(***************************************************************************)
\* faulty variant: a value may occur twice
is_correct_allows_pairs(check_set) ==
    LET unique == {check_set[k] : k \in DOMAIN check_set}
        counts(v) == Cardinality({k \in DOMAIN check_set : check_set[k] = v})
    IN  \A i \in unique : (i # 0) => ~(counts(i) > 2)

\* np.unique(check_set, return_counts=True) as the dict value -> count,
\* then: False as soon as a key other than 0 has a count above 1
is_correct(check_set) ==
    LET unique == {check_set[k] : k \in DOMAIN check_set}
        counts(v) == Cardinality({k \in DOMAIN check_set : check_set[k] = v})
    IN  \A i \in unique : (i # 0) => ~(counts(i) > 1)

\* faulty variant: the blocks are not looked at
check_sudoku_without_blocks(df) ==
    \A i \in R :
        ~(  ~is_correct(Column(df, i))
         \/ ~is_correct(Column(Transpose(df), i)) )

check_sudoku(df) ==
    \A i \in R :
        ~(  ~is_correct(Column(df, i))
         \/ ~is_correct(Column(Transpose(df), i))
         \/ ~is_correct(where_squares(df, i + 1)) )

RECURSIVE SumFrom(_, _)
\* to_numpy().sum(): the 81 entries, entry k being line k \div 9, position k % 9
SumFrom(df, k) ==
    IF k > 80 THEN 0 ELSE df[k \div 9][k % 9] + SumFrom(df, k + 1)

\* faulty variant: the wrong total
is_complete_wrong_total(df) == SumFrom(df, 0) = 45 * 10

\* variant that also looks for an empty cell before comparing the sum
is_complete_no_zero(df) ==
    /\ \A k \in 0 .. 80 : df[k \div 9][k % 9] # 0
    /\ SumFrom(df, 0) = 45 * 9

is_complete(df) == SumFrom(df, 0) = 45 * 9

RECURSIVE next_empty_scan(_, _, _)
\* the two nested loops of __next_empty, resumed at (row, col)
next_empty_scan(df, row, col) ==
    IF row > 8 THEN <<-1, -1>>
    ELSE IF col > 8 THEN next_empty_scan(df, row + 1, 0)
    ELSE IF At(df, row, col) = 0 THEN <<row, col>>
    ELSE next_empty_scan(df, row, col + 1)

next_empty(df) == next_empty_scan(df, 0, 0)

(***************************************************************************)
(* __get_options                                                           *)
(***************************************************************************)
\* list.remove(value), guarded by "if value in options_base"
remove_value(base, value) ==
    IF \E k \in 1 .. Len(base) : base[k] = value
    THEN LET k == CHOOSE k \in 1 .. Len(base) :
                      base[k] = value /\ \A j \in 1 .. (k - 1) : base[j] # value
         IN  SubSeq(base, 1, k - 1) \o SubSeq(base, k + 1, Len(base))
    ELSE base

RECURSIVE remove_series(_, _, _)
\* for value in <Series>: the nine entries in label order, from label k on
remove_series(base, series, k) ==
    IF k > 8 THEN base
    ELSE remove_series(remove_value(base, series[k]), series, k + 1)

RECURSIVE remove_unique(_, _)
\* for value in np.unique(<array>): the distinct values in ascending order
remove_unique(base, values) ==
    IF values = {} THEN base
    ELSE LET v == CHOOSE x \in values : \A y \in values : x <= y
         IN  remove_unique(remove_value(base, v), values \ {v})

\* faulty variant: row and col exchanged in the block identifier
block_of_swapped(row, col) == (row \div 3) * 3 + ((col \div 3) + 1)

\* the identifier of the block that __get_options uses for its (row, col)
block_of(row, col) == (col \div 3) * 3 + ((row \div 3) + 1)

\* the list __get_options stores with options[row][col] = ...
options_for(df, row, col) ==
    IF At(df, row, col) # 0
    THEN <<At(df, row, col)>>
    ELSE LET after_col == remove_series(range_1_10, Column(Transpose(df), col), 0)
             after_row == remove_series(after_col, Column(df, row), 0)
             block     == where_squares(df, block_of(row, col))
         IN  remove_unique(after_row, {block[p] : p \in DOMAIN block})

\* the DataFrame returned by __get_options: options[row][col] is At(.., row, col)
get_options(df) == [col \in R |-> [row \in R |-> options_for(df, row, col)]]

\* the options table of a call that built none (method "brute", or no call)
NoOptions == [i \in R |-> [c \in R |-> <<>>]]

(***************************************************************************)
(* draw_sudoku                                                             *)
(***************************************************************************)
\* str(v) for the values that fit the one-character cells of printable
str(v) == <<"1", "2", "3", "4", "5", "6", "7", "8", "9">>[v]

\* printable after the two loops: printable[row][col]
draw_sudoku(df) ==
    [row \in R |-> [col \in R |->
        IF At(Transpose(df), row, col) # 0
        THEN str(At(Transpose(df), row, col))
        ELSE ""]]

NothingPrinted == [kind |-> "none", grid |-> draw_sudoku([i \in R |-> [c \in R |-> 0]])]

(***************************************************************************)
(* The grids handed to the constructor.  Each is a solved grid with some   *)
(* cells emptied and, cell by cell for the first NumVar cells of VarCells, *)
(* the solved value kept, emptied or overwritten by another value: the     *)
(* family holds grids with a duplicate in a line only, a column only, a    *)
(* block only, grids with no, one and two completions.                     *)
(***************************************************************************)
NumVar == 5

SolvedRows ==
    << <<5, 3, 4, 6, 7, 8, 9, 1, 2>>,
       <<6, 7, 2, 1, 9, 5, 3, 4, 8>>,
       <<1, 9, 8, 3, 4, 2, 5, 6, 7>>,
       <<8, 5, 9, 7, 6, 1, 4, 2, 3>>,
       <<4, 2, 6, 8, 5, 3, 7, 9, 1>>,
       <<7, 1, 3, 9, 2, 4, 8, 5, 6>>,
       <<9, 6, 1, 5, 3, 7, 2, 8, 4>>,
       <<2, 8, 7, 4, 1, 9, 6, 3, 5>>,
       <<3, 4, 5, 2, 8, 6, 1, 7, 9>> >>

FixedBlanks == {<<2, 8>>, <<4, 6>>, <<0, 7>>, <<7, 4>>}

VarCells == << <<0, 3>>, <<0, 4>>, <<3, 3>>, <<3, 4>>, <<3, 8>>, <<4, 4>>, <<7, 5>> >>

AltValue == <<7, 1, 6, 7, 7, 7, 3>>

VarCount == IF NumVar < Len(VarCells) THEN NumVar ELSE Len(VarCells)

InputGrid(choice) ==
    [i \in R |-> [c \in R |->
        IF <<i, c>> \in FixedBlanks THEN 0
        ELSE IF \E k \in 1 .. VarCount : VarCells[k] = <<i, c>>
        THEN LET k == CHOOSE k \in 1 .. VarCount : VarCells[k] = <<i, c>>
             IN  CASE choice[k] = "kept"  -> SolvedRows[i + 1][c + 1]
                   [] choice[k] = "empty" -> 0
                   [] choice[k] = "alt"   -> AltValue[k]
        ELSE SolvedRows[i + 1][c + 1]]]

InputGrids == {InputGrid(choice) : choice \in [1 .. VarCount -> {"kept", "empty", "alt"}]}

ZeroGrid == [i \in R |-> [c \in R |-> 0]]

(***************************************************************************)
(* The program                                                             *)
(***************************************************************************)
\* before __init__ runs: its argument is in hand, nothing else exists yet
InitFrom(grids) ==
    /\ pc = "new"
    /\ sudoku \in grids
    /\ original = ZeroGrid
    /\ method = "none"
    /\ options = NoOptions
    /\ stack = <<>>
    /\ retval = FALSE
    /\ returned = "unset"
    /\ err = "none"
    /\ out = NothingPrinted
    /\ pre = ZeroGrid

Init == InitFrom(InputGrids)

\* the same, the grid of 81 empty cells being one of the arguments
InitWithEmptyGrid == InitFrom(InputGrids \cup {ZeroGrid})

\* SudokuSolver(sudoku): keep the grid, copy it, validate it
SudokuSolver_init ==
    /\ pc = "new"
    /\ original' = sudoku
    /\ IF ~check_sudoku(sudoku)
       THEN pc' = "invalid" /\ err' = "ValueError: Initial sudoku is invalid"
       ELSE pc' = "ready" /\ err' = "none"
    /\ UNCHANGED <<sudoku, method, options, stack, retval, returned, out, pre>>

\* draw_sudoku(original) called by the user of a constructed solver
DrawSudoku ==
    /\ pc \in {"ready", "done"}
    /\ \E orig \in BOOLEAN :
          out' = [kind |-> "grid",
                  grid |-> draw_sudoku(IF orig THEN original ELSE sudoku)]
    /\ UNCHANGED <<pc, sudoku, original, method, options, stack, retval, returned, err, pre>>

\* solve_sudoku(method) with a method it does not know: raises before anything else
solve_sudoku_bad_method ==
    /\ pc \in {"ready", "done"}
    /\ \E m \in {"fast"} :
          /\ m \notin {"brute", "options"}
          /\ err' = "ValueError: Method must be either 'brute' or 'options'"
    /\ returned' = "unset"
    /\ UNCHANGED <<pc, sudoku, original, method, options, stack, retval, out, pre>>

\* solve_sudoku(method), lines 315-324 / 336: up to the call of the search
solve_sudoku_start ==
    /\ pc \in {"ready", "done"}
    /\ \E m \in {"brute", "options"} :
          /\ method' = m
          /\ options' = IF m = "brute" THEN NoOptions ELSE get_options(sudoku)
    /\ out' = [kind |-> "solving", grid |-> NothingPrinted.grid]
    /\ pre' = sudoku
    /\ err' = "none"
    /\ returned' = "unset"
    /\ stack' = <<>>
    /\ pc' = "fill"
    /\ UNCHANGED <<sudoku, original, retval>>

(***************************************************************************)
(* __fill_sudoku_v1 and __fill_sudoku_v2.  The two functions have the same *)
(* body but for the values the loop runs over; each active call that got   *)
(* past its completeness test has a frame [n, row, col, iter]: n is the    *)
(* argument n of the call, iter the values its for loop has still to try.  *)
(***************************************************************************)
Top == stack[Len(stack)]

Pop == SubSeq(stack, 1, Len(stack) - 1)

\* the argument n of the call being entered: 1 from solve_sudoku, n + 1 from a call
entered_n == IF stack = <<>> THEN 1 ELSE Top.n + 1

\* what the for loop of __fill_sudoku_v1 runs over
v1_candidates(row, col) == range_1_10

\* faulty variant: the table is read as options[col][row]
v2_candidates_mirrored(row, col) == At(options, col, row)

\* what the for loop of __fill_sudoku_v2 runs over
v2_candidates(row, col) == At(options, row, col)

candidates(row, col) ==
    IF method = "brute" THEN v1_candidates(row, col) ELSE v2_candidates(row, col)

\* entry of a call: the completeness test, then __next_empty and the loop header
Enter ==
    /\ pc = "fill"
    /\ IF is_complete(sudoku)
       THEN /\ retval' = TRUE
            /\ pc' = "ret"
            /\ UNCHANGED <<stack, err, returned>>
       ELSE LET cell == next_empty(sudoku)
            IN  IF cell = <<-1, -1>>
                THEN \* no column is labelled -1: the subscript raises KeyError,
                     \* which leaves every active call and solve_sudoku
                     /\ err' = "KeyError: -1"
                     /\ stack' = <<>>
                     /\ pc' = "ready"
                     /\ returned' = "unset"
                     /\ UNCHANGED retval
                ELSE /\ stack' = Append(stack, [n    |-> entered_n,
                                                row  |-> cell[1],
                                                col  |-> cell[2],
                                                iter |-> candidates(cell[1], cell[2])])
                     /\ pc' = "loop"
                     /\ UNCHANGED <<retval, err, returned>>
    /\ UNCHANGED <<sudoku, original, method, options, out, pre>>

\* one pass of the for loop: assign, validate, and call the next level if valid
Try ==
    /\ pc = "loop"
    /\ Top.iter # <<>>
    /\ sudoku' = SetAt(sudoku, Top.row, Top.col, Head(Top.iter))
    /\ stack' = [stack EXCEPT ![Len(stack)].iter = Tail(@)]
    /\ pc' = IF check_sudoku(sudoku') THEN "fill" ELSE "loop"
    /\ UNCHANGED <<original, method, options, retval, returned, err, out, pre>>

\* faulty variant: return False without emptying the cell
Undo_without_reset ==
    /\ pc = "loop"
    /\ Top.iter = <<>>
    /\ stack' = Pop
    /\ retval' = FALSE
    /\ pc' = "ret"
    /\ UNCHANGED <<sudoku, original, method, options, returned, err, out, pre>>

\* the loop is over: empty the cell and return False
Undo ==
    /\ pc = "loop"
    /\ Top.iter = <<>>
    /\ sudoku' = SetAt(sudoku, Top.row, Top.col, 0)
    /\ stack' = Pop
    /\ retval' = FALSE
    /\ pc' = "ret"
    /\ UNCHANGED <<original, method, options, returned, err, out, pre>>

\* the call made from the loop returned True: return True
Propagate ==
    /\ pc = "ret"
    /\ stack # <<>>
    /\ retval
    /\ stack' = Pop
    /\ UNCHANGED <<pc, sudoku, original, method, options, retval, returned, err, out, pre>>

\* faulty variant: "return self.__fill...()" in place of "if ...: return True"
Resume_returns_result ==
    /\ pc = "ret"
    /\ stack # <<>>
    /\ ~retval
    /\ stack' = Pop
    /\ UNCHANGED <<pc, sudoku, original, method, options, retval, returned, err, out, pre>>

\* the call made from the loop returned False: on to the next value
Resume ==
    /\ pc = "ret"
    /\ stack # <<>>
    /\ ~retval
    /\ pc' = "loop"
    /\ UNCHANGED <<sudoku, original, method, options, stack, retval, returned, err, out, pre>>

fill_sudoku_v1_enter     == method = "brute" /\ Enter
fill_sudoku_v1_try       == method = "brute" /\ Try
fill_sudoku_v1_undo      == method = "brute" /\ Undo
fill_sudoku_v1_propagate == method = "brute" /\ Propagate
fill_sudoku_v1_resume    == method = "brute" /\ Resume

fill_sudoku_v2_enter     == method = "options" /\ Enter
fill_sudoku_v2_try       == method = "options" /\ Try
fill_sudoku_v2_undo      == method = "options" /\ Undo
fill_sudoku_v2_propagate == method = "options" /\ Propagate
fill_sudoku_v2_resume    == method = "options" /\ Resume

\* solve_sudoku after the search returned: report, maybe draw, and fall off the
\* end of the function, which hands None to the caller
solve_sudoku_finish ==
    /\ pc = "ret"
    /\ stack = <<>>
    /\ IF retval
       THEN \E answer \in {"Y", "N"} :
               out' = IF answer = "Y"
                      THEN [kind |-> "grid", grid |-> draw_sudoku(sudoku)]
                      ELSE [kind |-> "prompt", grid |-> NothingPrinted.grid]
       ELSE out' = [kind |-> "unsolved", grid |-> NothingPrinted.grid]
    /\ returned' = "None"
    /\ options' = NoOptions
    /\ pc' = "done"
    /\ UNCHANGED <<sudoku, original, method, stack, retval, err, pre>>

Next ==
    \/ SudokuSolver_init
    \/ DrawSudoku
    \/ solve_sudoku_bad_method
    \/ solve_sudoku_start
    \/ fill_sudoku_v1_enter
    \/ fill_sudoku_v1_try
    \/ fill_sudoku_v1_undo
    \/ fill_sudoku_v1_propagate
    \/ fill_sudoku_v1_resume
    \/ fill_sudoku_v2_enter
    \/ fill_sudoku_v2_try
    \/ fill_sudoku_v2_undo
    \/ fill_sudoku_v2_propagate
    \/ fill_sudoku_v2_resume
    \/ solve_sudoku_finish

Spec == Init /\ [][Next]_vars

SpecWithEmptyGrid == InitWithEmptyGrid /\ [][Next]_vars

(***************************************************************************)
(* Vocabulary of the properties.  A grid is read as the caller supplied    *)
(* it: g[i][c] is position c of line i.  Nothing below is used by the      *)
(* program above.                                                          *)
(***************************************************************************)
Cells == R \X R

Val(g, p) == g[p[1]][p[2]]

LineCells(i) == {p \in Cells : p[1] = i}

PositionCells(c) == {p \in Cells : p[2] = c}

BlockCells(b) == {p \in Cells : squares(p[1], p[2]) = b}

Lines == {LineCells(i) : i \in R}

Positions == {PositionCells(c) : c \in R}

Blocks == {BlockCells(b) : b \in 1 .. 9}

DuplicateIn(g, U) ==
    \E p \in U : \E q \in U : p # q /\ Val(g, p) # 0 /\ Val(g, p) = Val(g, q)

HasDuplicate(g) == \E U \in Lines \cup Positions \cup Blocks : DuplicateIn(g, U)

EmptyCells(g) == {p \in Cells : Val(g, p) = 0}

NoZero(g) == EmptyCells(g) = {}

RECURSIVE SumOver(_, _)
SumOver(g, ps) ==
    IF ps = {} THEN 0
    ELSE LET p == CHOOSE q \in ps : TRUE IN Val(g, p) + SumOver(g, ps \ {p})

CellSum(g) == SumOver(g, Cells)

IsPermutation(g, U) == {Val(g, p) : p \in U} = 1 .. 9

IsSolution(g) == \A U \in Lines \cup Positions \cup Blocks : IsPermutation(g, U)

----------------------------------------------------------------------------
(* C5: the constructor raises the invalid-puzzle error exactly when a      *)
(* line, a position or a block of the Box Index Map of the grid it was     *)
(* given holds the same non-zero value twice; every other grid is          *)
(* accepted.  Zeros are never duplicates.                                  *)
C5_ConstructorRejectsExactlyDuplicates ==
    (pc # "new") =>
        /\ (pc = "invalid") <=> HasDuplicate(original)
        /\ (pc = "invalid") <=> (err = "ValueError: Initial sudoku is invalid")

\* a rejected grid whose only duplicate lies in a block, next to several zeros
C5_Witness ==
    /\ pc = "invalid"
    /\ \E B \in Blocks : DuplicateIn(original, B)
    /\ \A U \in Lines \cup Positions : ~DuplicateIn(original, U)
    /\ Cardinality(EmptyCells(original)) >= 2

----------------------------------------------------------------------------
(***************************************************************************)
(* __is_complete on its own, applied to grids of values 0..9 that need not *)
(* be valid: the solved grid with each of the first NumPure cells of       *)
(* PureCells kept, emptied or set to 9.                                    *)
(***************************************************************************)
NumPure == 5

PureCells == << <<0, 0>>, <<0, 2>>, <<1, 1>>, <<2, 2>>, <<4, 4>>, <<8, 8>>, <<6, 3>> >>

PureCount == IF NumPure < Len(PureCells) THEN NumPure ELSE Len(PureCells)

PureGrid(choice) ==
    [i \in R |-> [c \in R |->
        IF \E k \in 1 .. PureCount : PureCells[k] = <<i, c>>
        THEN LET k == CHOOSE k \in 1 .. PureCount : PureCells[k] = <<i, c>>
             IN  CASE choice[k] = "kept"  -> SolvedRows[i + 1][c + 1]
                   [] choice[k] = "empty" -> 0
                   [] choice[k] = "nine"  -> 9
        ELSE SolvedRows[i + 1][c + 1]]]

PureGrids == {PureGrid(choice) : choice \in [1 .. PureCount -> {"kept", "empty", "nine"}]}

InitPure ==
    /\ pc = "pure"
    /\ sudoku \in PureGrids
    /\ original = ZeroGrid
    /\ method = "none"
    /\ options = NoOptions
    /\ stack = <<>>
    /\ retval = FALSE
    /\ returned = "unset"
    /\ err = "none"
    /\ out = NothingPrinted
    /\ pre = ZeroGrid

\* one call of __is_complete; retval holds what it returned
is_complete_call ==
    /\ pc = "pure"
    /\ retval' = is_complete(sudoku)
    /\ pc' = "pure_done"
    /\ UNCHANGED <<sudoku, original, method, options, stack, returned, err, out, pre>>

NextPure == is_complete_call

SpecPure == InitPure /\ [][NextPure]_vars

----------------------------------------------------------------------------
\* the digits of 1..9 found nowhere in the line, the position and the block
\* of cell p of grid g, in ascending order
FreeDigits(g, p) ==
    {d \in 1 .. 9 :
        \A q \in LineCells(p[1]) \cup PositionCells(p[2])
                 \cup BlockCells(squares(p[1], p[2])) : Val(g, q) # d}

Ascending(digits) == SelectSeq(<<1, 2, 3, 4, 5, 6, 7, 8, 9>>, LAMBDA d : d \in digits)

ExpectedCandidates(g, p) ==
    IF Val(g, p) # 0 THEN <<Val(g, p)>> ELSE Ascending(FreeDigits(g, p))

IsSuffix(s, t) ==
    /\ Len(s) <= Len(t)
    /\ s = SubSeq(t, Len(t) - Len(s) + 1, Len(t))

\* the cell of the supplied grid that a frame assigns to
FrameCell(f) == <<f.col, f.row>>

Searching == pc \in {"fill", "loop", "ret"}

(* C9: the table built by __get_options from a valid grid holds, for a     *)
(* filled cell, the one-element sequence of its value and, for an empty    *)
(* cell, the digits of 1..9 that occur nowhere in its line, its position   *)
(* and its block of the Box Index Map, ascending; the entry the pruned     *)
(* search iterates over for the cell it assigns is the entry of that cell; *)
(* building the table leaves the grid as it was.                           *)
C9_OptionsTable ==
    (Searching /\ method = "options") =>
        /\ \A p \in Cells : At(options, p[2], p[1]) = ExpectedCandidates(pre, p)
        /\ \A k \in 1 .. Len(stack) :
               /\ IsSuffix(stack[k].iter, ExpectedCandidates(pre, FrameCell(stack[k])))
               /\ Val(pre, FrameCell(stack[k])) = 0
        /\ (pc = "fill" /\ stack = <<>>) => sudoku = pre

\* the pruned search iterates over an entry of two or more digits, for a cell
\* whose block differs from the block of the mirrored cell
C9_Witness ==
    /\ method = "options"
    /\ pc = "loop"
    /\ Len(Top.iter) >= 2
    /\ Top.iter = ExpectedCandidates(pre, FrameCell(Top))
    /\ squares(Top.row, Top.col) # squares(Top.col, Top.row)

----------------------------------------------------------------------------
SetVal(g, p, d) == [g EXCEPT ![p[1]][p[2]] = d]

RECURSIVE Completions(_)
\* the complete grids without duplicate that agree with g on its non-zero cells
Completions(g) ==
    IF EmptyCells(g) = {}
    THEN IF IsSolution(g) THEN {g} ELSE {}
    ELSE LET p == CHOOSE q \in EmptyCells(g) : TRUE
         IN  UNION {Completions(SetVal(g, p, d)) : d \in FreeDigits(g, p)}

\* the outermost __fill_sudoku_* call has just returned to solve_sudoku
SearchReturned == pc = "ret" /\ stack = <<>>

(* C1: whenever a call of the search returns True, in either strategy, the *)
(* working grid passes __check_sudoku and __is_complete, has no zero cell, *)
(* every line, position and block is a permutation of 1..9 and the cells   *)
(* sum to 405.                                                             *)
C1_SuccessIsSolved ==
    (pc = "ret" /\ retval) =>
        /\ check_sudoku(sudoku)
        /\ is_complete(sudoku)
        /\ NoZero(sudoku)
        /\ IsSolution(sudoku)
        /\ CellSum(sudoku) = 405

\* the pruned search returned True to solve_sudoku for a grid that had at
\* least five empty cells when solve_sudoku was called
C1_Witness ==
    /\ SearchReturned
    /\ retval
    /\ method = "options"
    /\ Cardinality(EmptyCells(pre)) >= 5

(* C2: when a call of the search returns False, every cell other than the  *)
(* cells of its callers' frames holds what it held when solve_sudoku was   *)
(* called; when the outermost call returns False the grid equals the grid  *)
(* solve_sudoku was called with.                                           *)
C2_FailureRestoresGrid ==
    (pc = "ret" /\ ~retval) =>
        /\ \A p \in Cells :
              \/ \E k \in 1 .. Len(stack) : FrameCell(stack[k]) = p
              \/ Val(sudoku, p) = Val(pre, p)
        /\ (stack = <<>>) => (sudoku = pre)

\* the exhaustive search returned False to solve_sudoku for a grid with at
\* least four empty cells, each of which it had to assign to before failing
C2_Witness ==
    /\ SearchReturned
    /\ ~retval
    /\ method = "brute"
    /\ Cardinality(EmptyCells(pre)) >= 4
    /\ sudoku = pre

(* C3: when the grid solve_sudoku is called with has exactly one           *)
(* completion, the search returns True and the working grid is that        *)
(* completion, whichever of "brute" and "options" was asked for.           *)
C3_UniqueCompletionFound ==
    SearchReturned =>
        LET completions == Completions(pre)
        IN  (Cardinality(completions) = 1) => (retval /\ sudoku \in completions)

\* the pruned search ended on the only completion of a grid with at least
\* six empty cells
C3_Witness ==
    /\ SearchReturned
    /\ method = "options"
    /\ Cardinality(EmptyCells(pre)) >= 6
    /\ Completions(pre) = {sudoku}

(* C4: the search returns True to solve_sudoku if and only if the grid     *)
(* solve_sudoku was called with has a completion, in both strategies.      *)
C4_SuccessIffCompletion ==
    SearchReturned => (retval <=> (Completions(pre) # {}))

\* the pruned search succeeded on a grid with more than one completion
C4_Witness ==
    /\ SearchReturned
    /\ method = "options"
    /\ retval
    /\ Cardinality(Completions(pre)) >= 2

----------------------------------------------------------------------------
(* C6: solve_sudoku called with a recognized method hands a boolean to its *)
(* caller: True if the search solved the grid, False otherwise.            *)
C6_ReturnsBoolean ==
    (pc = "done") => (returned = IF retval THEN "True" ELSE "False")

----------------------------------------------------------------------------
\* the first empty cell of what draw_sudoku renders, lines top to bottom and
\* each line left to right
FirstEmptyRendered(rendered) ==
    LET empty == {p \in Cells : rendered[p[1]][p[2]] = ""}
    IN  CHOOSE p \in empty :
            \A q \in empty : p[1] < q[1] \/ (p[1] = q[1] /\ p[2] <= q[2])

\* a call has just chosen its cell and has not assigned to it yet
CellJustChosen ==
    /\ pc = "loop"
    /\ Val(sudoku, FrameCell(Top)) = 0
    /\ Top.iter = candidates(Top.row, Top.col)

(* C8: at every level of the search, in both strategies, the cell chosen   *)
(* to be filled is the first empty cell of the supplied grid, as           *)
(* draw_sudoku renders it, in row-major order.                             *)
C8_RowMajorFirstEmpty ==
    CellJustChosen => (FrameCell(Top) = FirstEmptyRendered(draw_sudoku(sudoku)))

----------------------------------------------------------------------------
NonZeroCount(g) == Cardinality(Cells \ EmptyCells(g))

\* the number of __fill_sudoku_* calls that are active: the n of the innermost
Depth ==
    IF pc = "fill" THEN entered_n
    ELSE IF stack = <<>> THEN 0
    ELSE Top.n

C10_EntryInvariant ==
    /\ \A k \in 1 .. Len(stack) :
          /\ stack[k].n = k
          /\ stack[k].row \in R /\ stack[k].col \in R
          /\ Len(stack[k].iter) <= 9
    /\ (pc = "fill") =>
          /\ NonZeroCount(sudoku) = NonZeroCount(pre) + (entered_n - 1)
          /\ check_sudoku(sudoku)
          /\ ~HasDuplicate(sudoku)
          /\ ~is_complete(sudoku) => next_empty(sudoku) # <<-1, -1>>
    /\ Searching => method \in {"brute", "options"}
    /\ (pc = "loop") => (stack # <<>>)
    /\ err # "KeyError: -1"

\* Ranking of the search states.  One digit per frame, 2 * (values left to
\* try) + 2, followed by one digit for what goes on below the last frame: a
\* call being entered (22), the loop of the last frame running (0), a call
\* that has just returned (1).
Rank ==
    [k \in 1 .. (Len(stack) + 1) |->
        IF k <= Len(stack) THEN 2 * Len(stack[k].iter) + 2
        ELSE IF pc = "fill" THEN 22
        ELSE IF pc = "ret" THEN 1
        ELSE 0]

\* a is before b in the lexicographic order
LexLess(a, b) ==
    \E i \in 1 .. (IF Len(a) < Len(b) THEN Len(a) ELSE Len(b)) :
        /\ a[i] < b[i]
        /\ \A j \in 1 .. (i - 1) : a[j] = b[j]

\* every step of the search lowers Rank
SearchStepLowersRank == (Searching /\ Searching') => LexLess(Rank', Rank)

(* C10 as stated: the search terminates (every step of it lowers Rank, a   *)
(* bounded sequence ordered lexicographically, and a search state always   *)
(* has a step to take); its recursion depth never exceeds 81; a call is    *)
(* entered with one more non-zero cell than its caller was, the grid       *)
(* passes __check_sudoku at the entry of every call, and __next_empty      *)
(* never returns (-1, -1) to the search.                                   *)
C10_DepthAtMost81 ==
    /\ [](C10_EntryInvariant /\ Depth <= 81)
    /\ [][SearchStepLowersRank]_vars

(* C10 amended: the same with the depth bound the code has: at most 82     *)
(* calls are active at once (n <= 82), 81 that have each assigned one cell *)
(* and the innermost one, which finds the grid complete; 82 is reached     *)
(* from the grid of 81 empty cells.                                        *)
C10_DepthAtMost82 ==
    /\ [](C10_EntryInvariant /\ Depth <= 82
          /\ Depth <= Cardinality(EmptyCells(pre)) + 1)
    /\ [][SearchStepLowersRank]_vars

\* the 82nd call is entered, 81 cells assigned above it
C10_Witness ==
    /\ pc = "fill"
    /\ entered_n = 82
    /\ NonZeroCount(sudoku) = NonZeroCount(pre) + 81

=============================================================================
